---- MODULE Spec2Model ----
(***************************************************************************)
(* Model of src/app.py: the title-page field extractor                     *)
(* (extract_title_page_fields) and the grade engine                        *)
(* (convert_points_to_grade, compute_weighted_grade).                      *)
(*                                                                         *)
(* Text is modelled by TLA+ strings, read character by character; the      *)
(* regular expressions of the source are written out as matchers over      *)
(* these characters.  Indices into `lines` are the 0-based indices of the  *)
(* Python source; positions inside a string are 1-based.                   *)
(* Scores and grades are integers counting tenths (96.4 is 964, 1.3 is 13).*)
(***************************************************************************)
EXTENDS Integers, Sequences, FiniteSets, TLC

(***************************************************************************)
(* Bounds of the model.                                                    *)
(***************************************************************************)
\* longest page (in raw lines) built freely from RawLinePool
MaxLines == 3
\* scores range from -NegTenths tenths ...
NegTenths == 30
\* ... to 100.0 plus OverTenths tenths
OverTenths == 30
\* whole-point scores given to compute_weighted_grade range over 0..MaxScore
MaxScore == 100

(***************************************************************************)
(* Characters.                                                             *)
(***************************************************************************)
LowerAlpha == "abcdefghijklmnopqrstuvwxyz"
UpperAlpha == "ABCDEFGHIJKLMNOPQRSTUVWXYZ"
LowerSet == {SubSeq(LowerAlpha, i, i) : i \in 1..26}
UpperSet == {SubSeq(UpperAlpha, i, i) : i \in 1..26}
DigitSet == {"0", "1", "2", "3", "4", "5", "6", "7", "8", "9"}
\* what str.strip() removes and \s matches (ASCII)
SpaceSet == {" ", "\t", "\n", "\r", "\f"}
\* [\s.]
SpaceDotSet == SpaceSet \cup {"."}
\* [,\s]
CommaSpaceSet == SpaceSet \cup {","}
\* [./]
DotSlashSet == {".", "/"}
\* \w
WordSet == LowerSet \cup UpperSet \cup DigitSet \cup {"_"}

ToLower == [c \in UpperSet |->
              LET i == CHOOSE k \in 1..26 : SubSeq(UpperAlpha, k, k) = c
              IN  SubSeq(LowerAlpha, i, i)]

\* the character of s at position i (1-based), "" outside the string
Ch(s, i) == IF 1 <= i /\ i <= Len(s) THEN SubSeq(s, i, i) ELSE ""

Lower(c) == IF c \in UpperSet THEN ToLower[c] ELSE c

\* \b between positions i-1 and i
WordBoundary(s, i) == (Ch(s, i - 1) \in WordSet) # (Ch(s, i) \in WordSet)

\* the literal lit (given in lower case) at position i, ignoring case
MatchCI(s, i, lit) == \A k \in 1..Len(lit) : Lower(Ch(s, i + k - 1)) = Ch(lit, k)

\* the literal lit at position i, case-sensitively
MatchCS(s, i, lit) == \A k \in 1..Len(lit) : Ch(s, i + k - 1) = Ch(lit, k)

\* n digits from position i on
DigitsAt(s, i, n) == \A k \in 0..(n - 1) : Ch(s, i + k) \in DigitSet

\* the first position >= i whose character is not in cls (a greedy cls*)
RECURSIVE Skip(_, _, _)
Skip(s, i, cls) == IF Ch(s, i) \in cls THEN Skip(s, i + 1, cls) ELSE i

\* str.strip()
RECURSIVE LStrip(_)
LStrip(s) == IF Len(s) > 0 /\ Ch(s, 1) \in SpaceSet
             THEN LStrip(SubSeq(s, 2, Len(s))) ELSE s
RECURSIVE RStrip(_)
RStrip(s) == IF Len(s) > 0 /\ Ch(s, Len(s)) \in SpaceSet
             THEN RStrip(SubSeq(s, 1, Len(s) - 1)) ELSE s
Strip(s) == RStrip(LStrip(s))

\* str.isdigit()
IsDigitStr(s) == Len(s) > 0 /\ DigitsAt(s, 1, Len(s))

\* position of the first occurrence of character c in s, 0 when absent
FirstIndexOf(s, c) ==
    LET hits == {i \in 1..Len(s) : Ch(s, i) = c}
    IN  IF hits = {} THEN 0 ELSE CHOOSE i \in hits : \A j \in hits : i <= j

\* str.split("\n")
RECURSIVE SplitNL(_)
SplitNL(s) ==
    LET k == FirstIndexOf(s, "\n")
    IN  IF k = 0 THEN <<s>>
        ELSE <<SubSeq(s, 1, k - 1)>> \o SplitNL(SubSeq(s, k + 1, Len(s)))

\* " ".join(ls)
RECURSIVE JoinSpace(_)
JoinSpace(ls) == IF Len(ls) = 0 THEN ""
                 ELSE IF Len(ls) = 1 THEN ls[1]
                 ELSE ls[1] \o " " \o JoinSpace(Tail(ls))

\* [l.strip() for l in raw.split("\n") if l.strip()]
RECURSIVE StripNonEmpty(_)
StripNonEmpty(ls) ==
    IF Len(ls) = 0 THEN <<>>
    ELSE LET h == Strip(ls[1])
         IN  (IF h = "" THEN <<>> ELSE <<h>>) \o StripNonEmpty(Tail(ls))
SegmentLines(raw) == StripNonEmpty(SplitNL(raw))

(***************************************************************************)
(* The regular expressions.                                                *)
(***************************************************************************)
\* the month alternatives of _RE_DATE_LONG, short and long forms
MonthForms == {"jan", "january", "feb", "february", "mar", "march",
               "apr", "april", "may", "jun", "june", "jul", "july",
               "aug", "august", "sep", "september", "oct", "october",
               "nov", "november", "dec", "december"}

\* _RE_DATE_LONG anchored at position i: the positions just past a match.
\* \b Month [\s.]* \d{1,2} [,\s]+ \d{4} \b, ignoring case.  The character
\* classes that follow each other are disjoint, so the greedy quantifiers
\* have one way to match and the set holds at most one position.
DateLongEnds(s, i) ==
    LET j1(m) == Skip(s, i + Len(m), SpaceDotSet)
        j3(m, k) == Skip(s, j1(m) + k, CommaSpaceSet)
        ok(m, k) == /\ MatchCI(s, i, m)
                    /\ DigitsAt(s, j1(m), k)
                    /\ j3(m, k) > j1(m) + k
                    /\ DigitsAt(s, j3(m, k), 4)
                    /\ WordBoundary(s, j3(m, k) + 4)
    IN  IF ~WordBoundary(s, i) \/ Ch(s, i) \notin (LowerSet \cup UpperSet) THEN {}
        ELSE { j3(mk[1], mk[2]) + 4 :
                 mk \in {x \in MonthForms \X (1..2) : ok(x[1], x[2])} }

\* _RE_DATE_LONG.search(s): the leftmost match as [from, to], or [0, 0]
DateLongMatch(s) ==
    LET starts == {i \in 1..Len(s) : DateLongEnds(s, i) # {}}
    IN  IF starts = {} THEN [from |-> 0, to |-> 0]
        ELSE LET i == CHOOSE a \in starts : \A b \in starts : a <= b
             IN  [from |-> i, to |-> (CHOOSE e \in DateLongEnds(s, i) : TRUE) - 1]

RE_DATE_LONG_search(s) == DateLongMatch(s).from # 0

\* _RE_DATE_SHORT.search(s): \b \d{1,2} [./] \d{1,2} [./] \d{4} \b
RE_DATE_SHORT_search(s) ==
    \E i \in 1..Len(s) : \E k1 \in 1..2 : \E k2 \in 1..2 :
        LET a == i + k1
            b == a + 1 + k2
        IN  /\ WordBoundary(s, i)
            /\ DigitsAt(s, i, k1)
            /\ Ch(s, a) \in DotSlashSet
            /\ DigitsAt(s, a + 1, k2)
            /\ Ch(s, b) \in DotSlashSet
            /\ DigitsAt(s, b + 1, 4)
            /\ WordBoundary(s, b + 5)

\* _RE_PROF.match(s): ^Prof[\s.], ignoring case
RE_PROF_match(s) == MatchCI(s, 1, "prof") /\ Ch(s, 5) \in SpaceDotSet

\* _RE_CHAIR.match(s): ^Chair\s+of, ignoring case
RE_CHAIR_match(s) ==
    LET j == Skip(s, 6, SpaceSet)
    IN  MatchCI(s, 1, "chair") /\ j > 6 /\ MatchCI(s, j, "of")

\* _RE_DOB.search(s): \b\d{2}\.\d{2}\.\d{4}\b
RE_DOB_search(s) ==
    \E i \in 1..Len(s) :
        /\ WordBoundary(s, i)
        /\ DigitsAt(s, i, 2) /\ Ch(s, i + 2) = "."
        /\ DigitsAt(s, i + 3, 2) /\ Ch(s, i + 5) = "."
        /\ DigitsAt(s, i + 6, 4)
        /\ WordBoundary(s, i + 10)

is_dob_line(line) == RE_DOB_search(line)

\* re.fullmatch(r'master\s+thesis', s, re.IGNORECASE)
IsHeaderLine(s) ==
    LET j == Skip(s, 7, SpaceSet)
    IN  MatchCI(s, 1, "master") /\ j > 7 /\ MatchCI(s, j, "thesis")
        /\ j + 6 = Len(s) + 1

\* re.fullmatch(r'\d{6,10}', s)
IsStandaloneId(s) == Len(s) >= 6 /\ Len(s) <= 10 /\ DigitsAt(s, 1, Len(s))

\* re.search(r'\((\d{6,10})\)', s): group(1) of the leftmost match, "" if none
ParenIdGroup(s) ==
    LET ok(i) == LET j == Skip(s, i + 1, DigitSet)
                 IN  Ch(s, i) = "(" /\ j - (i + 1) >= 6 /\ j - (i + 1) <= 10
                     /\ Ch(s, j) = ")"
        starts == {i \in 1..Len(s) : ok(i)}
    IN  IF starts = {} THEN ""
        ELSE LET i == CHOOSE a \in starts : \A b \in starts : a <= b
             IN  SubSeq(s, i + 1, Skip(s, i + 1, DigitSet) - 1)

\* the first position >= i holding "," or ")", or Len(s)+1 (a greedy [^,\)]*)
RECURSIVE SkipToCommaParen(_, _)
SkipToCommaParen(s, i) ==
    IF i > Len(s) \/ Ch(s, i) \in {",", ")"} THEN i ELSE SkipToCommaParen(s, i + 1)

\* re.search(r'\(([^,\)]+),\s*(\d{1,2}\.\d{1,2}\.\d{4})\)', s): the groups
\* of the leftmost match, found = FALSE if none
ParenCityDate(s) ==
    LET c(i) == SkipToCommaParen(s, i + 1)
        d(i) == Skip(s, c(i) + 1, SpaceSet)
        ok(i, k1, k2) ==
            LET a == d(i) + k1
                b == a + 1 + k2
            IN  /\ Ch(s, i) = "("
                /\ c(i) > i + 1 /\ Ch(s, c(i)) = ","
                /\ DigitsAt(s, d(i), k1) /\ Ch(s, a) = "."
                /\ DigitsAt(s, a + 1, k2) /\ Ch(s, b) = "."
                /\ DigitsAt(s, b + 1, 4)
                /\ Ch(s, b + 5) = ")"
        ends(i) == { d(i) + k[1] + 1 + k[2] + 5 :
                       k \in {x \in (1..2) \X (1..2) : ok(i, x[1], x[2])} }
        starts == {i \in 1..Len(s) : ends(i) # {}}
    IN  IF starts = {} THEN [found |-> FALSE, g1 |-> "", g2 |-> ""]
        ELSE LET i == CHOOSE a \in starts : \A b \in starts : a <= b
                 e == CHOOSE x \in ends(i) : TRUE
             IN  [found |-> TRUE,
                  g1 |-> SubSeq(s, i + 1, c(i) - 1),
                  g2 |-> SubSeq(s, d(i), e - 1)]

\* re.sub(r'^Prof[\s.]+(?:Dr[\s.]+)?', '', s): case-sensitive
SubProfPrefix(s) ==
    LET j == Skip(s, 5, SpaceDotSet)
        k == Skip(s, j + 2, SpaceDotSet)
    IN  IF MatchCS(s, 1, "Prof") /\ j > 5
        THEN IF MatchCS(s, j, "Dr") /\ k > j + 2
             THEN SubSeq(s, k, Len(s))
             ELSE SubSeq(s, j, Len(s))
        ELSE s

(***************************************************************************)
(* Inputs: what the PDF library hands to extract_title_page_fields.        *)
(***************************************************************************)
\* raw lines a page is built from, as pdfplumber may return them
RawLinePool == {"Master Thesis", "A Study", "Chair of Example",
                "Prof. Dr. Jane Doe", "PROF X", "Vallendar , January 5, 2024",
                "02.02.2026", "12345678", "Matr (20010551)",
                " Max Mustermann ", "  "}

\* whole title pages in the documented layout and some of its variations
SamplePages == {
    <<"Master Thesis", "A Study of Something", "Chair of Example",
      "Prof. Jane Doe", "John Smith", "Vallendar, January 5, 2024",
      "Max Mustermann", "12345678">>,
    <<"Master Thesis", "A Study of", "Something", "Prof. Dr. Jane Doe",
      "January 5, 2024", "Max Mustermann", "Matriculation no (20010551)">>,
    <<"A Study", "Chair of Example", "Prof. Jane Doe", "Prof. John Smith",
      "Submission date (Vallendar, 02.02.2026)", "Max Mustermann", "1234567">>,
    <<"Max Mustermann", "12345678", "submitted on Jan", "5, 2024">>,
    <<"Prof. Jane Doe", "John Smith", "Koblenz", "02.02.2026", "Max Mustermann",
      "born 01.01.2000", "(123456)">> }

RECURSIVE JoinNL(_)
JoinNL(ls) == IF Len(ls) = 0 THEN ""
              ELSE IF Len(ls) = 1 THEN ls[1]
              ELSE ls[1] \o "\n" \o JoinNL(Tail(ls))

FreePages == UNION {[1..n -> RawLinePool] : n \in 0..MaxLines}

\* the page texts pdf.pages[0].extract_text() may return
RawTexts == {JoinNL(p) : p \in SamplePages \cup FreePages}

Fields == {"thesis_title", "advisor", "co_advisor", "location",
           "submission_date", "student_name", "student_id"}

EmptyResult == [f \in Fields |-> ""]

\* the value of a local variable that has not been assigned yet
Unset == -1

\* the smallest element of a non-empty set of integers
Min(S) == CHOOSE a \in S : \A b \in S : a <= b

VARIABLES
    pc,            \* position in extract_title_page_fields
    raw,           \* text of the first page
    lines,         \* the stripped non-empty lines
    result,        \* the record being filled
    start, chair_idx, advisor_idx, co_idx_used, loc_date_idx, name_idx, id_idx,
    outcome,       \* "running", "returned" or "raised"
    returned,      \* the value handed to the caller
    caught,        \* history: the except clause has run
    structural,    \* history: the record as steps 1-7 left it
    g_op,          \* the grade function called: "convert" or "weighted"
    g_pc,          \* "idle" before the call, "done" after it
    points,        \* argument of convert_points_to_grade, in tenths
    grade,         \* its result: the grade in tenths and the return taken
    thesis_points, \* arguments of compute_weighted_grade, whole points
    defense_points,
    wres,          \* its result, every number in tenths
    ss,            \* st.session_state: a function from the keys present
    ss0,           \* history: st.session_state when load_session was called
    ls_pc,         \* position in load_session
    ls_bytes,      \* its argument json_bytes
    ls_data,       \* its local data
    ls_ret,        \* the value it returned: "none", "True" or "False"
    ls_outcome,    \* "running", "returned" or "raised"
    pdf_uploader,     \* the PDF held by the file uploader, "none" if empty
    session_uploader, \* the JSON held by the session uploader, "none" if empty
    rerun_pending,    \* st.rerun() was called: the script runs again at once
    ui_event,         \* what started the last script run
    ss_pre,           \* history: st.session_state when the last run started
    extract_called,   \* history: the last run called extract_title_page_fields
    rendered,         \* the parts of the page the last run rendered
    guarded           \* history: an extraction or a successful load has
                      \* happened and Clear was not pressed since

exVars == <<pc, raw, lines, result, start, chair_idx, advisor_idx, co_idx_used,
            loc_date_idx, name_idx, id_idx, outcome, returned, caught, structural>>

idxVars == <<start, chair_idx, advisor_idx, co_idx_used, loc_date_idx,
             name_idx, id_idx>>

grVars == <<g_op, g_pc, points, grade, thesis_points, defense_points, wres>>

seVars == <<ss, ss0, ls_pc, ls_bytes, ls_data, ls_ret, ls_outcome>>

uiVars == <<pdf_uploader, session_uploader, rerun_pending, ui_event, ss_pre,
            extract_called, rendered, guarded>>

vars == <<exVars, grVars, seVars, uiVars>>

\* lines[i] of the source (0-based)
LineAt(i) == lines[i + 1]
NLines == Len(lines)

ExInit ==
    /\ pc = "open"
    /\ raw = ""
    /\ lines = <<>>
    /\ result = EmptyResult
    /\ start = Unset /\ chair_idx = Unset /\ advisor_idx = Unset
    /\ co_idx_used = Unset /\ loc_date_idx = Unset /\ name_idx = Unset
    /\ id_idx = Unset
    /\ outcome = "running"
    /\ returned = EmptyResult
    /\ caught = FALSE
    /\ structural = EmptyResult

(***************************************************************************)
(* extract_title_page_fields, statement by statement.                      *)
(***************************************************************************)
\* pdfplumber.open / pdf.pages / extract_text: raises, or has no page, or
\* gives the text of the first page (None becomes "")
OpenPdf ==
    /\ pc = "open"
    /\ \/ /\ pc' = "except"
          /\ raw' = raw
       \/ /\ pc' = "return"
          /\ raw' = raw
       \/ /\ raw' = ""            \* extract_text() gave None: None or ""
          /\ pc' = "segment"
       \/ \E t \in RawTexts :
            /\ raw' = t
            /\ pc' = "segment"
    /\ UNCHANGED <<lines, result, idxVars, outcome, returned, caught, structural, grVars, seVars, uiVars>>

Segment ==
    /\ pc = "segment"
    /\ lines' = SegmentLines(raw)
    /\ pc' = IF lines' = <<>> THEN "return" ELSE "header"
    /\ UNCHANGED <<raw, result, idxVars, outcome, returned, caught, structural, grVars, seVars, uiVars>>

\* FindHeader continuing at the header line itself instead of after it
FindHeader_OffByOne(ls) ==
    LET hits == {i \in 0..(Len(ls) - 1) : IsHeaderLine(ls[i + 1])}
    IN  IF hits = {} THEN 0 ELSE Min(hits)

\* step 1: start
FindHeader(ls) ==
    LET hits == {i \in 0..(Len(ls) - 1) : IsHeaderLine(ls[i + 1])}
    IN  IF hits = {} THEN 0 ELSE Min(hits) + 1

StepHeader ==
    /\ pc = "header"
    /\ start' = FindHeader(lines)
    /\ pc' = "title"
    /\ UNCHANGED <<raw, lines, result, chair_idx, advisor_idx, co_idx_used,
                   loc_date_idx, name_idx, id_idx, outcome, returned, caught, structural, grVars, seVars, uiVars>>

\* step 2: the marker positions from st on
Markers(ls, st) ==
    {i \in st..(Len(ls) - 1) : RE_CHAIR_match(ls[i + 1]) \/ RE_PROF_match(ls[i + 1])}

StepTitle ==
    /\ pc = "title"
    /\ LET M == Markers(lines, start)
           stop == IF M = {} THEN NLines ELSE Min(M)
           title_lines == SubSeq(lines, start + 1, stop)
       IN  /\ chair_idx' = IF M = {} THEN start ELSE Min(M)
           /\ result' = IF title_lines # <<>>
                        THEN [result EXCEPT !.thesis_title = JoinSpace(title_lines)]
                        ELSE result
    /\ pc' = "advisor"
    /\ UNCHANGED <<raw, lines, start, advisor_idx, co_idx_used, loc_date_idx,
                   name_idx, id_idx, outcome, returned, caught, structural, grVars, seVars, uiVars>>

\* step 3: advisor_idx
FindAdvisor(ls, ci) ==
    LET P == {i \in ci..(Len(ls) - 1) : RE_PROF_match(ls[i + 1])}
    IN  IF P = {} THEN ci ELSE Min(P)

StepAdvisor ==
    /\ pc = "advisor"
    /\ advisor_idx' = FindAdvisor(lines, chair_idx)
    /\ result' = IF advisor_idx' < NLines
                 THEN [result EXCEPT !.advisor = Strip(SubProfPrefix(LineAt(advisor_idx')))]
                 ELSE result
    /\ pc' = "co_advisor"
    /\ UNCHANGED <<raw, lines, start, chair_idx, co_idx_used, loc_date_idx,
                   name_idx, id_idx, outcome, returned, caught, structural, grVars, seVars, uiVars>>

\* step 4 without the date test on the candidate
StepCoAdvisor_NoDateTest ==
    /\ pc = "co_advisor"
    /\ LET co_idx == advisor_idx + 1
       IN  IF co_idx < NLines /\ ~RE_PROF_match(LineAt(co_idx))
           THEN /\ result' = [result EXCEPT !.co_advisor = LineAt(co_idx)]
                /\ co_idx_used' = co_idx
           ELSE /\ result' = result
                /\ co_idx_used' = advisor_idx
    /\ pc' = "loc_date"
    /\ UNCHANGED <<raw, lines, start, chair_idx, advisor_idx, loc_date_idx,
                   name_idx, id_idx, outcome, returned, caught, structural, grVars, seVars, uiVars>>

\* step 4 moving the cursor past a date-shaped candidate
StepCoAdvisor_Advance ==
    /\ pc = "co_advisor"
    /\ LET co_idx == advisor_idx + 1
       IN  IF co_idx < NLines /\ ~RE_PROF_match(LineAt(co_idx))
           THEN LET candidate == LineAt(co_idx)
                IN  IF ~RE_DATE_LONG_search(candidate) /\ ~RE_DATE_SHORT_search(candidate)
                    THEN /\ result' = [result EXCEPT !.co_advisor = candidate]
                         /\ co_idx_used' = co_idx
                    ELSE /\ result' = result
                         /\ co_idx_used' = co_idx
           ELSE /\ result' = result
                /\ co_idx_used' = advisor_idx
    /\ pc' = "loc_date"
    /\ UNCHANGED <<raw, lines, start, chair_idx, advisor_idx, loc_date_idx,
                   name_idx, id_idx, outcome, returned, caught, structural, grVars, seVars, uiVars>>

\* step 4
StepCoAdvisor ==
    /\ pc = "co_advisor"
    /\ LET co_idx == advisor_idx + 1
       IN  IF co_idx < NLines /\ ~RE_PROF_match(LineAt(co_idx))
           THEN LET candidate == LineAt(co_idx)
                IN  IF ~RE_DATE_LONG_search(candidate) /\ ~RE_DATE_SHORT_search(candidate)
                    THEN /\ result' = [result EXCEPT !.co_advisor = candidate]
                         /\ co_idx_used' = co_idx
                    ELSE /\ result' = result
                         /\ co_idx_used' = advisor_idx
           ELSE /\ result' = result
                /\ co_idx_used' = advisor_idx
    /\ pc' = "loc_date"
    /\ UNCHANGED <<raw, lines, start, chair_idx, advisor_idx, loc_date_idx,
                   name_idx, id_idx, outcome, returned, caught, structural, grVars, seVars, uiVars>>

\* ParseLocDate without the .strip() calls on the comma-separated parts
ParseLocDate_NoStrip(res, loc_date) ==
    LET c == FirstIndexOf(loc_date, ",")
        part0 == SubSeq(loc_date, 1, c - 1)
        part1 == SubSeq(loc_date, c + 1, Len(loc_date))
        m_paren == ParenCityDate(loc_date)
    IN  IF c # 0 /\ RE_DATE_LONG_search(part1)
        THEN [res EXCEPT !.location = part0, !.submission_date = part1]
        ELSE IF RE_DATE_LONG_search(loc_date)
        THEN [res EXCEPT !.submission_date = loc_date]
        ELSE IF RE_DATE_SHORT_search(loc_date)
        THEN IF m_paren.found
             THEN [res EXCEPT !.location = m_paren.g1, !.submission_date = m_paren.g2]
             ELSE [res EXCEPT !.submission_date = loc_date]
        ELSE res

\* ParseLocDate taking any line without a long-form date verbatim
ParseLocDate_Verbatim(res, loc_date) ==
    LET c == FirstIndexOf(loc_date, ",")
        part0 == SubSeq(loc_date, 1, c - 1)
        part1 == SubSeq(loc_date, c + 1, Len(loc_date))
    IN  IF c # 0 /\ RE_DATE_LONG_search(part1)
        THEN [res EXCEPT !.location = Strip(part0), !.submission_date = Strip(part1)]
        ELSE [res EXCEPT !.submission_date = loc_date]

\* step 5: the fields read from the location/date line
ParseLocDate(res, loc_date) ==
    LET c == FirstIndexOf(loc_date, ",")
        part0 == SubSeq(loc_date, 1, c - 1)
        part1 == SubSeq(loc_date, c + 1, Len(loc_date))
        m_paren == ParenCityDate(loc_date)
    IN  IF c # 0 /\ RE_DATE_LONG_search(part1)
        THEN [res EXCEPT !.location = Strip(part0), !.submission_date = Strip(part1)]
        ELSE IF RE_DATE_LONG_search(loc_date)
        THEN [res EXCEPT !.submission_date = loc_date]
        ELSE IF RE_DATE_SHORT_search(loc_date)
        THEN IF m_paren.found
             THEN [res EXCEPT !.location = Strip(m_paren.g1),
                              !.submission_date = Strip(m_paren.g2)]
             ELSE [res EXCEPT !.submission_date = loc_date]
        ELSE res

StepLocDate ==
    /\ pc = "loc_date"
    /\ loc_date_idx' = co_idx_used + 1
    /\ result' = IF loc_date_idx' < NLines
                 THEN ParseLocDate(result, LineAt(loc_date_idx'))
                 ELSE result
    /\ pc' = "name"
    /\ UNCHANGED <<raw, lines, start, chair_idx, advisor_idx, co_idx_used,
                   name_idx, id_idx, outcome, returned, caught, structural, grVars, seVars, uiVars>>

\* the test on the name candidate without the all-digits test
NameAccepted_NoDigitTest(candidate) ==
    /\ ~RE_DATE_LONG_search(candidate)
    /\ ~RE_DATE_SHORT_search(candidate)

\* step 6: the test on the name candidate
NameAccepted(candidate) ==
    /\ ~RE_DATE_LONG_search(candidate)
    /\ ~RE_DATE_SHORT_search(candidate)
    /\ ~IsDigitStr(candidate)

\* step 6 reading the location/date line again
StepName_Stay ==
    /\ pc = "name"
    /\ name_idx' = loc_date_idx
    /\ result' = IF name_idx' < NLines /\ NameAccepted(LineAt(name_idx'))
                 THEN [result EXCEPT !.student_name = LineAt(name_idx')]
                 ELSE result
    /\ pc' = "id"
    /\ UNCHANGED <<raw, lines, start, chair_idx, advisor_idx, co_idx_used,
                   loc_date_idx, id_idx, outcome, returned, caught, structural, grVars, seVars, uiVars>>

StepName ==
    /\ pc = "name"
    /\ name_idx' = loc_date_idx + 1
    /\ result' = IF name_idx' < NLines /\ NameAccepted(LineAt(name_idx'))
                 THEN [result EXCEPT !.student_name = LineAt(name_idx')]
                 ELSE result
    /\ pc' = "id"
    /\ UNCHANGED <<raw, lines, start, chair_idx, advisor_idx, co_idx_used,
                   loc_date_idx, id_idx, outcome, returned, caught, structural, grVars, seVars, uiVars>>

\* step 7: the ID read from the ID line, "" if none
ParseIdLine(id_line) ==
    IF IsStandaloneId(id_line) THEN id_line ELSE ParenIdGroup(id_line)

StepId ==
    /\ pc = "id"
    /\ id_idx' = name_idx + 1
    /\ result' = IF id_idx' < NLines /\ ParseIdLine(LineAt(id_idx')) # ""
                 THEN [result EXCEPT !.student_id = ParseIdLine(LineAt(id_idx'))]
                 ELSE result
    /\ structural' = result'
    /\ pc' = "fb_id"
    /\ UNCHANGED <<raw, lines, start, chair_idx, advisor_idx, co_idx_used,
                   loc_date_idx, name_idx, outcome, returned, caught, grVars, seVars, uiVars>>

\* the test of the fallback on the line before an ID
PlausibleName(candidate) ==
    /\ ~RE_DATE_LONG_search(candidate)
    /\ ~RE_DATE_SHORT_search(candidate)
    /\ ~IsDigitStr(candidate)
    /\ ~is_dob_line(candidate)

\* WithIdAt without the test that student_name is still empty
WithIdAt_NoGuard(res, ls, i, id) ==
    [res EXCEPT !.student_id = id,
                !.student_name = IF i > 0 /\ PlausibleName(ls[i]) THEN ls[i] ELSE @]

\* the record after an ID was found on line i (0-based) with value id
WithIdAt(res, ls, i, id) ==
    [res EXCEPT !.student_id = id,
                !.student_name = IF i > 0 /\ @ = "" /\ PlausibleName(ls[i])
                                 THEN ls[i] ELSE @]

\* the largest element of a non-empty set of integers
Max(S) == CHOOSE a \in S : \A b \in S : a >= b

\* FallbackId keeping the last standalone token instead of the first
FallbackId_Last(res, ls) ==
    LET S == {i \in 0..(Len(ls) - 1) : IsStandaloneId(ls[i + 1])}
        P == {i \in 0..(Len(ls) - 1) : ParenIdGroup(ls[i + 1]) # ""}
    IN  IF res.student_id # "" THEN res
        ELSE IF S # {} THEN WithIdAt(res, ls, Max(S), ls[Max(S) + 1])
        ELSE IF P # {} THEN WithIdAt(res, ls, Min(P), ParenIdGroup(ls[Min(P) + 1]))
        ELSE res

\* FallbackId without the second scan for an ID in parentheses
FallbackId_NoParen(res, ls) ==
    LET S == {i \in 0..(Len(ls) - 1) : IsStandaloneId(ls[i + 1])}
    IN  IF res.student_id # "" THEN res
        ELSE IF S # {} THEN WithIdAt(res, ls, Min(S), ls[Min(S) + 1])
        ELSE res

\* fallback for student_id (and student_name with it)
FallbackId(res, ls) ==
    LET S == {i \in 0..(Len(ls) - 1) : IsStandaloneId(ls[i + 1])}
        P == {i \in 0..(Len(ls) - 1) : ParenIdGroup(ls[i + 1]) # ""}
    IN  IF res.student_id # "" THEN res
        ELSE IF S # {} THEN WithIdAt(res, ls, Min(S), ls[Min(S) + 1])
        ELSE IF P # {} THEN WithIdAt(res, ls, Min(P), ParenIdGroup(ls[Min(P) + 1]))
        ELSE res

\* fallback for submission_date: the first long-form date of the page text
FallbackDate(res, text) ==
    LET m == DateLongMatch(text)
    IN  IF res.submission_date = "" /\ m.from # 0
        THEN [res EXCEPT !.submission_date = SubSeq(text, m.from, m.to)]
        ELSE res

\* FallbackTitle taking the second line whether or not a header was found
FallbackTitle_Second(res, ls, st) ==
    IF res.thesis_title = "" /\ Len(ls) > 1
    THEN [res EXCEPT !.thesis_title = ls[2]]
    ELSE res

\* fallback for thesis_title
FallbackTitle(res, ls, st) ==
    IF res.thesis_title = "" /\ Len(ls) > 1
    THEN [res EXCEPT !.thesis_title = IF st > 0 THEN ls[2] ELSE ls[1]]
    ELSE res

StepFallbackId ==
    /\ pc = "fb_id"
    /\ result' = FallbackId(result, lines)
    /\ pc' = "fb_date"
    /\ UNCHANGED <<raw, lines, idxVars, outcome, returned, caught, structural, grVars, seVars, uiVars>>

StepFallbackDate ==
    /\ pc = "fb_date"
    /\ result' = FallbackDate(result, raw)
    /\ pc' = "fb_title"
    /\ UNCHANGED <<raw, lines, idxVars, outcome, returned, caught, structural, grVars, seVars, uiVars>>

StepFallbackTitle ==
    /\ pc = "fb_title"
    /\ result' = FallbackTitle(result, lines, start)
    /\ pc' = "return"
    /\ UNCHANGED <<raw, lines, idxVars, outcome, returned, caught, structural, grVars, seVars, uiVars>>

\* an except clause that lets the exception out of the function
ExceptHandler_Reraise ==
    /\ pc = "except"
    /\ caught' = TRUE
    /\ pc' = "done"
    /\ outcome' = "raised"
    /\ UNCHANGED <<raw, lines, result, idxVars, returned, structural, grVars, seVars, uiVars>>

\* except Exception: pass
ExceptHandler ==
    /\ pc = "except"
    /\ caught' = TRUE
    /\ pc' = "return"
    /\ UNCHANGED <<raw, lines, result, idxVars, outcome, returned, structural, grVars, seVars, uiVars>>

\* return result
Return ==
    /\ pc = "return"
    /\ pc' = "done"
    /\ outcome' = "returned"
    /\ returned' = result
    /\ UNCHANGED <<raw, lines, result, idxVars, caught, structural, grVars, seVars, uiVars>>

StructuralPcs == {"header", "title", "advisor", "co_advisor", "loc_date", "name", "id"}
FallbackPcs == {"fb_id", "fb_date", "fb_title"}

Next ==
    \/ OpenPdf
    \/ Segment
    \/ StepHeader
    \/ StepTitle
    \/ StepAdvisor
    \/ StepCoAdvisor
    \/ StepLocDate
    \/ StepName
    \/ StepId
    \/ StepFallbackId
    \/ StepFallbackDate
    \/ StepFallbackTitle
    \/ ExceptHandler
    \/ Return

(***************************************************************************)
(* The grade engine.  Scores and grades count tenths.                      *)
(***************************************************************************)
\* GRADE_LOOKUP with the grade of the 88.4 row mistyped as 1.5
GRADE_LOOKUP_Typo == <<
    <<1000, 10>>, <<990, 10>>, <<980, 10>>, <<970, 11>>, <<964, 11>>,
    <<960, 12>>, <<950, 12>>, <<948, 12>>, <<940, 13>>, <<932, 13>>,
    <<930, 14>>, <<920, 14>>, <<916, 14>>, <<910, 15>>, <<900, 15>>,
    <<890, 16>>, <<884, 15>>, <<880, 17>>, <<870, 17>>, <<868, 17>>,
    <<860, 18>>, <<852, 18>>, <<850, 19>>, <<840, 19>>, <<836, 19>>,
    <<830, 20>>, <<820, 20>>, <<810, 21>>, <<804, 21>>, <<800, 22>>,
    <<790, 22>>, <<788, 22>>, <<780, 23>>, <<772, 23>>, <<770, 24>>,
    <<760, 24>>, <<756, 24>>, <<750, 25>>, <<740, 25>>, <<730, 26>>,
    <<724, 26>>, <<720, 27>>, <<710, 27>>, <<708, 27>>, <<700, 28>>,
    <<692, 28>>, <<690, 29>>, <<680, 29>>, <<676, 29>>, <<670, 30>>,
    <<660, 30>>, <<650, 31>>, <<644, 31>>, <<640, 32>>, <<630, 32>>,
    <<628, 32>>, <<620, 33>>, <<612, 33>>, <<610, 34>>, <<600, 34>>,
    <<596, 34>>, <<590, 35>>, <<580, 35>>, <<570, 36>>, <<564, 36>>,
    <<560, 37>>, <<550, 37>>, <<548, 37>>, <<540, 38>>, <<532, 38>>,
    <<530, 39>>, <<520, 39>>, <<516, 39>>, <<510, 40>>, <<500, 40>> >>

\* rows <<threshold, grade>>, in the order of the source
GRADE_LOOKUP == <<
    <<1000, 10>>, <<990, 10>>, <<980, 10>>, <<970, 11>>, <<964, 11>>,
    <<960, 12>>, <<950, 12>>, <<948, 12>>, <<940, 13>>, <<932, 13>>,
    <<930, 14>>, <<920, 14>>, <<916, 14>>, <<910, 15>>, <<900, 15>>,
    <<890, 16>>, <<884, 16>>, <<880, 17>>, <<870, 17>>, <<868, 17>>,
    <<860, 18>>, <<852, 18>>, <<850, 19>>, <<840, 19>>, <<836, 19>>,
    <<830, 20>>, <<820, 20>>, <<810, 21>>, <<804, 21>>, <<800, 22>>,
    <<790, 22>>, <<788, 22>>, <<780, 23>>, <<772, 23>>, <<770, 24>>,
    <<760, 24>>, <<756, 24>>, <<750, 25>>, <<740, 25>>, <<730, 26>>,
    <<724, 26>>, <<720, 27>>, <<710, 27>>, <<708, 27>>, <<700, 28>>,
    <<692, 28>>, <<690, 29>>, <<680, 29>>, <<676, 29>>, <<670, 30>>,
    <<660, 30>>, <<650, 31>>, <<644, 31>>, <<640, 32>>, <<630, 32>>,
    <<628, 32>>, <<620, 33>>, <<612, 33>>, <<610, 34>>, <<600, 34>>,
    <<596, 34>>, <<590, 35>>, <<580, 35>>, <<570, 36>>, <<564, 36>>,
    <<560, 37>>, <<550, 37>>, <<548, 37>>, <<540, 38>>, <<532, 38>>,
    <<530, 39>>, <<520, 39>>, <<516, 39>>, <<510, 40>>, <<500, 40>> >>

\* a loop that stops one row before the end of the table
RECURSIVE ScanTable_SkipLast(_, _, _)
ScanTable_SkipLast(tbl, p, k) ==
    IF k > Len(tbl) - 1 THEN [grade |-> 50, ret |-> "default"]
    ELSE IF tbl[k][1] <= p THEN [grade |-> tbl[k][2], ret |-> "table"]
    ELSE ScanTable_SkipLast(tbl, p, k + 1)

\* the loop over GRADE_LOOKUP from row k on, then the return after it
RECURSIVE ScanTable(_, _, _)
ScanTable(tbl, p, k) ==
    IF k > Len(tbl) THEN [grade |-> 50, ret |-> "default"]
    ELSE IF tbl[k][1] <= p THEN [grade |-> tbl[k][2], ret |-> "table"]
    ELSE ScanTable(tbl, p, k + 1)

\* ConvertCall with the short-circuit placed at 60 instead of 50
ConvertCall_Below60(p) ==
    IF p < 600 THEN [grade |-> 50, ret |-> "below_50"]
    ELSE ScanTable(GRADE_LOOKUP, p, 1)

\* ConvertCall failing a score of exactly 50
ConvertCall_Cutoff(p) ==
    IF p <= 500 THEN [grade |-> 50, ret |-> "below_50"]
    ELSE ScanTable(GRADE_LOOKUP, p, 1)

\* convert_points_to_grade for a numeric score p: the grade and which
\* return statement gave it
ConvertCall(p) ==
    IF p < 500 THEN [grade |-> 50, ret |-> "below_50"]
    ELSE ScanTable(GRADE_LOOKUP, p, 1)

convert_points_to_grade(p) == ConvertCall(p).grade

\* rounding that takes an exact tie upwards
RoundTenth_HalfUp(h) == IF h % 10 < 5 THEN h \div 10 ELSE (h \div 10) + 1

\* round(x, 1) for x = h hundredths, h >= 0: Python rounds a float to the
\* nearest tenth and an exact tie to the even one (h * 0.01 is exact in
\* binary for the multiples of 0.25 that arise here)
RoundTenth(h) ==
    LET q == h \div 10
        r == h % 10
    IN  IF r < 5 THEN q
        ELSE IF r > 5 THEN q + 1
        ELSE IF q % 2 = 0 THEN q ELSE q + 1

\* compute_weighted_grade with weights 0.75 and 0.30, which do not add up
\* to one
compute_weighted_grade_Weights(a, b) ==
    LET w_thesis == RoundTenth(a * 75)
        w_defense == RoundTenth(b * 30)
        combined == RoundTenth((w_thesis + w_defense) * 10)
    IN  [weighted_thesis |-> w_thesis,
         weighted_defense |-> w_defense,
         combined_points |-> combined,
         thesis_grade |-> convert_points_to_grade(a * 10),
         defense_grade |-> convert_points_to_grade(b * 10),
         combined_grade |-> convert_points_to_grade(combined)]

\* compute_weighted_grade for whole-point scores a and b
compute_weighted_grade(a, b) ==
    LET w_thesis == RoundTenth(a * 75)
        w_defense == RoundTenth(b * 25)
        combined == RoundTenth((w_thesis + w_defense) * 10)
    IN  [weighted_thesis |-> w_thesis,
         weighted_defense |-> w_defense,
         combined_points |-> combined,
         thesis_grade |-> convert_points_to_grade(a * 10),
         defense_grade |-> convert_points_to_grade(b * 10),
         combined_grade |-> convert_points_to_grade(combined)]

NoGrade == [grade |-> 0, ret |-> "none"]
NoWeighted == [weighted_thesis |-> 0, weighted_defense |-> 0, combined_points |-> 0,
               thesis_grade |-> 0, defense_grade |-> 0, combined_grade |-> 0]

GrIdle ==
    /\ g_op = "none" /\ g_pc = "idle" /\ points = 0 /\ grade = NoGrade
    /\ thesis_points = 0 /\ defense_points = 0 /\ wres = NoWeighted

\* the scores the grade functions are called with
GrInit ==
    /\ g_pc = "idle"
    /\ grade = NoGrade
    /\ wres = NoWeighted
    /\ \/ /\ g_op = "convert"
          /\ points \in (0 - NegTenths)..(1000 + OverTenths)
          /\ thesis_points = 0 /\ defense_points = 0
       \/ /\ g_op = "weighted"
          /\ points = 0
          /\ thesis_points \in 0..MaxScore
          /\ defense_points \in 0..MaxScore

CallConvert ==
    /\ g_op = "convert" /\ g_pc = "idle"
    /\ grade' = ConvertCall(points)
    /\ g_pc' = "done"
    /\ UNCHANGED <<g_op, points, thesis_points, defense_points, wres, exVars, seVars, uiVars>>

CallWeighted ==
    /\ g_op = "weighted" /\ g_pc = "idle"
    /\ wres' = compute_weighted_grade(thesis_points, defense_points)
    /\ g_pc' = "done"
    /\ UNCHANGED <<g_op, points, grade, thesis_points, defense_points, exVars, seVars, uiVars>>

(***************************************************************************)
(* Session save/restore: load_session.  Values of st.session_state are     *)
(* strings, except the Boolean pdf_extracted.                              *)
(***************************************************************************)
_EXPORT_KEYS == {
    "student_name", "student_id", "thesis_title", "submission_date",
    "first_supervisor", "second_supervisor",
    "thesis_points", "criteria", "criterion_9_label", "general_comments_p1",
    "third_assessor_decision", "third_assessor_proposed_grade",
    "defense_date", "defense_program", "defense_time_start", "defense_time_end",
    "defense_mode", "defense_location_link",
    "defense_first_examiner", "defense_second_examiner", "defense_group_work",
    "topics", "answers", "special_circumstances", "defense_points" }

Digit1(i) == SubSeq("0123456789", i + 1, i + 1)

_WIDGET_KEYS ==
    {"hdr_title", "hdr_name", "hdr_id", "hdr_subdate", "hdr_sup1", "hdr_sup2",
     "p1_gen_comments", "p1_thesis_pts", "crit9_label_input",
     "third_decision_radio", "third_proposed_input",
     "p2_defense_date", "p2_program", "p2_tstart", "p2_tend", "p2_mode",
     "p2_location", "p2_exam1", "p2_exam2", "p2_groupwork",
     "p2_special_circumstances", "p2_defense_pts"}
    \cup {"input_grade_" \o Digit1(i) : i \in 0..8}
    \cup {"input_comment_" \o Digit1(i) : i \in 0..8}
    \cup {"p2_topic_" \o Digit1(i) : i \in 0..5}
    \cup {"p2_answer_" \o Digit1(i) : i \in 0..5}

DEFAULT_SUPERVISOR_1 == "Dries Faems"
DEFAULT_SUPERVISOR_2 == "Fabian Fritz"

\* the header part of the defaults of init_session_state
HeaderDefaults ==
    [k \in {"student_name", "student_id", "thesis_title", "submission_date",
            "first_supervisor", "second_supervisor", "pdf_extracted"} |->
        CASE k = "first_supervisor" -> DEFAULT_SUPERVISOR_1
          [] k = "second_supervisor" -> DEFAULT_SUPERVISOR_2
          [] k = "pdf_extracted" -> FALSE
          [] OTHER -> ""]

\* f with key k set to v, added when absent (st.session_state[k] = v)
SetKey(f, k, v) == [x \in DOMAIN f \cup {k} |-> IF x = k THEN v ELSE f[x]]

\* f without the keys of K (st.session_state.pop(k, None) for each)
DropKeys(f, K) == [x \in DOMAIN f \ K |-> f[x]]

\* f overwritten and extended by g
Overlay(f, g) == [x \in DOMAIN f \cup DOMAIN g |-> IF x \in DOMAIN g THEN g[x] ELSE f[x]]

\* session states load_session may be called in: before or after the
\* header widgets exist, with or without a name typed in, with either
\* value of pdf_extracted
SessionStates ==
    { Overlay(Overlay(SetKey(SetKey(HeaderDefaults, "student_name", n),
                             "pdf_extracted", x),
                      IF w THEN [k \in {"hdr_name"} |-> n] ELSE << >>),
              IF w THEN [k \in {"hdr_sup1", "p1_thesis_pts"} |->
                            IF k = "hdr_sup1" THEN DEFAULT_SUPERVISOR_1 ELSE "0"]
                   ELSE << >>) :
        n \in {"", "Max"}, x \in BOOLEAN, w \in BOOLEAN }

NoData == [kind |-> "none", items |-> << >>]

\* uploaded files, each with what json_bytes.decode("utf-8") and json.loads
\* make of it: an exception, or a Python value (kind; for a dict its items)
JsonFiles == {
    [bytes |-> "<ff>", raises |-> "UnicodeDecodeError", data |-> NoData],
    [bytes |-> "", raises |-> "JSONDecodeError", data |-> NoData],
    [bytes |-> "not json", raises |-> "JSONDecodeError", data |-> NoData],
    [bytes |-> "[]", raises |-> "", data |-> [kind |-> "list", items |-> << >>]],
    [bytes |-> "42", raises |-> "", data |-> [kind |-> "int", items |-> << >>]],
    [bytes |-> "null", raises |-> "", data |-> [kind |-> "NoneType", items |-> << >>]],
    [bytes |-> "\"abc\"", raises |-> "", data |-> [kind |-> "str", items |-> << >>]],
    [bytes |-> "{}", raises |-> "", data |-> [kind |-> "dict", items |-> << >>]],
    [bytes |-> "{\"student_name\": \"Eva\"}", raises |-> "",
     data |-> [kind |-> "dict", items |-> [k \in {"student_name"} |-> "Eva"]]],
    [bytes |-> "{\"student_name\": \"Eva\", \"hdr_name\": \"X\", \"other\": \"u\"}",
     raises |-> "",
     data |-> [kind |-> "dict",
               items |-> [k \in {"student_name", "hdr_name", "other"} |->
                            CASE k = "student_name" -> "Eva"
                              [] k = "hdr_name" -> "X"
                              [] OTHER -> "u"]]] }

SeIdle ==
    /\ ss = HeaderDefaults /\ ss0 = HeaderDefaults
    /\ ls_pc = "idle" /\ ls_bytes = "" /\ ls_data = NoData
    /\ ls_ret = "none" /\ ls_outcome = "running"

\* a call load_session(json_bytes) about to start
SeInit ==
    /\ ss \in SessionStates
    /\ ss0 = ss
    /\ ls_pc = "parse"
    /\ ls_bytes \in {f.bytes : f \in JsonFiles}
    /\ ls_data = NoData
    /\ ls_ret = "none"
    /\ ls_outcome = "running"

FileOf(b) == CHOOSE f \in JsonFiles : f.bytes = b

\* try: data = json.loads(json_bytes.decode("utf-8"))
\* except Exception: return False
LsParse ==
    /\ ls_pc = "parse"
    /\ IF FileOf(ls_bytes).raises # ""
       THEN /\ ls_ret' = "False" /\ ls_outcome' = "returned" /\ ls_pc' = "done"
            /\ ls_data' = ls_data
       ELSE /\ ls_data' = FileOf(ls_bytes).data /\ ls_pc' = "pop"
            /\ UNCHANGED <<ls_ret, ls_outcome>>
    /\ UNCHANGED <<ss, ss0, ls_bytes, exVars, grVars, uiVars>>

\* for wk in _WIDGET_KEYS: st.session_state.pop(wk, None)
LsPop ==
    /\ ls_pc = "pop"
    /\ ss' = DropKeys(ss, _WIDGET_KEYS)
    /\ ls_pc' = "items"
    /\ UNCHANGED <<ss0, ls_bytes, ls_data, ls_ret, ls_outcome, exVars, grVars, uiVars>>

\* the session state after the loop over data.items()
RestoreItems(f, items) ==
    [x \in DOMAIN f \cup (DOMAIN items \cap _EXPORT_KEYS) |->
        IF x \in DOMAIN items \cap _EXPORT_KEYS THEN items[x] ELSE f[x]]

\* for k, v in data.items(): ...   (AttributeError unless data is a dict)
LsItems ==
    /\ ls_pc = "items"
    /\ IF ls_data.kind # "dict"
       THEN /\ ls_outcome' = "raised" /\ ls_pc' = "done" /\ ss' = ss
       ELSE /\ ss' = RestoreItems(ss, ls_data.items) /\ ls_pc' = "flag"
            /\ ls_outcome' = ls_outcome
    /\ UNCHANGED <<ss0, ls_bytes, ls_data, ls_ret, exVars, grVars, uiVars>>

\* st.session_state.pdf_extracted = True; return True
LsFlag ==
    /\ ls_pc = "flag"
    /\ ss' = SetKey(ss, "pdf_extracted", TRUE)
    /\ ls_ret' = "True" /\ ls_outcome' = "returned" /\ ls_pc' = "done"
    /\ UNCHANGED <<ss0, ls_bytes, ls_data, exVars, grVars, uiVars>>

(***************************************************************************)
(* The page script: one action per script run of main().  Only the parts   *)
(* of main() that read or write the header keys and pdf_extracted are      *)
(* modelled: render_session_upload, render_pdf_upload and                  *)
(* render_header_fields.                                                   *)
(***************************************************************************)
\* (extracted field key, backing state key, header widget key)
FIELD_MAP == <<
    <<"thesis_title", "thesis_title", "hdr_title">>,
    <<"student_name", "student_name", "hdr_name">>,
    <<"student_id", "student_id", "hdr_id">>,
    <<"submission_date", "submission_date", "hdr_subdate">>,
    <<"advisor", "first_supervisor", "hdr_sup1">>,
    <<"co_advisor", "second_supervisor", "hdr_sup2">> >>

\* before the first script run of a session: nothing uploaded, the
\* defaults of init_session_state in place
UiInit ==
    /\ pdf_uploader = "none"
    /\ session_uploader = "none"
    /\ rerun_pending = FALSE
    /\ ui_event = "start"
    /\ ss_pre = HeaderDefaults
    /\ extract_called = FALSE
    /\ rendered = {}
    /\ guarded = FALSE

\* the PDFs a user may upload, each with the record
\* extract_title_page_fields returns for it: the title page of C1Lines, a
\* scanned PDF without text, and a page whose only line is "A Study"
PdfFiles == {
    [name |-> "thesis.pdf",
     fields |-> [thesis_title |-> "A Study of Something", advisor |-> "Jane Doe",
                 co_advisor |-> "John Smith", location |-> "Vallendar",
                 submission_date |-> "January 5, 2024",
                 student_name |-> "Max Mustermann", student_id |-> "12345678"]],
    [name |-> "scan.pdf", fields |-> EmptyResult],
    [name |-> "note.pdf",
     fields |-> [EmptyResult EXCEPT !.thesis_title = "A Study", !.advisor = "A Study"]] }

\* fields = extract_title_page_fields(uploaded.read())
ExtractedFields(pdf) == (CHOOSE f \in PdfFiles : f.name = pdf).fields

\* the header fields a user types into, and what is typed
EditableWidgets == {"hdr_name", "hdr_title"}
EditValues == {"", "Eva"}

BackingKeys == {FIELD_MAP[i][2] : i \in 1..Len(FIELD_MAP)}
HeaderWidgetKeys == {FIELD_MAP[i][3] : i \in 1..Len(FIELD_MAP)}

\* init_session_state: a default for every key that is missing
InitSessionState(f) == Overlay(HeaderDefaults, f)

\* load_session as one call: the session state it leaves and how it ends
LoadSession(f, file) ==
    IF file.raises # "" THEN [ss |-> f, ret |-> "False"]
    ELSE IF file.data.kind # "dict"
    THEN [ss |-> DropKeys(f, _WIDGET_KEYS), ret |-> "raised"]
    ELSE [ss |-> SetKey(RestoreItems(DropKeys(f, _WIDGET_KEYS), file.data.items),
                        "pdf_extracted", TRUE),
          ret |-> "True"]

\* a script run in progress: the session state, how the run was cut short
\* ("" if it was not), and what it has done so far
StartRun(f) ==
    [ss |-> InitSessionState(f), stop |-> "", extracted |-> FALSE, loaded |-> FALSE,
     cleared |-> FALSE, rendered |-> {}]

\* render_session_upload; pressed: "Load saved evaluation" was clicked
RenderSessionUpload(r, json, pressed) ==
    IF json = "none" THEN r
    ELSE IF ~pressed THEN [r EXCEPT !.rendered = @ \cup {"load"}]
    ELSE LET L == LoadSession(r.ss, FileOf(json))
         IN  CASE L.ret = "True" ->
                    [r EXCEPT !.ss = L.ss, !.stop = "rerun", !.loaded = TRUE]
               [] L.ret = "False" -> [r EXCEPT !.rendered = @ \cup {"load"}]
               [] OTHER -> [r EXCEPT !.ss = L.ss, !.stop = "raised"]

\* the rows of FIELD_MAP whose extracted value is not blank
Populated(fields) == {i \in 1..Len(FIELD_MAP) : Strip(fields[FIELD_MAP[i][1]]) # ""}

\* the loop over FIELD_MAP after an extraction
Populate(f, fields) ==
    LET P == Populated(fields)
        Row(x) == CHOOSE i \in P : x \in {FIELD_MAP[i][2], FIELD_MAP[i][3]}
        Written == UNION {{FIELD_MAP[i][2], FIELD_MAP[i][3]} : i \in P}
    IN  [x \in DOMAIN f \cup Written |->
            IF x \in Written THEN Strip(fields[FIELD_MAP[Row(x)][1]]) ELSE f[x]]

\* the body of the Clear button
ClearHeader(f) ==
    SetKey([x \in DOMAIN f \ HeaderWidgetKeys |-> IF x \in BackingKeys THEN "" ELSE f[x]],
           "pdf_extracted", FALSE)

\* render_pdf_upload extracting in every run in which a PDF is held
RenderPdfUpload_NoGate(r, pdf, pressed) ==
    IF r.stop # "" THEN r
    ELSE LET gate == pdf # "none"
             fields == ExtractedFields(pdf)
             r1 == IF gate
                   THEN [r EXCEPT !.ss = SetKey(Populate(r.ss, fields), "pdf_extracted", TRUE),
                                  !.extracted = TRUE,
                                  !.stop = IF Populated(fields) # {} THEN "rerun" ELSE ""]
                   ELSE r
         IN  IF r1.stop # "" THEN [r1 EXCEPT !.rendered = @ \cup {"pdf"}]
             ELSE IF ~r1.ss["pdf_extracted"] THEN [r1 EXCEPT !.rendered = @ \cup {"pdf"}]
             ELSE IF ~pressed THEN [r1 EXCEPT !.rendered = @ \cup {"pdf", "clear"}]
             ELSE [r1 EXCEPT !.ss = ClearHeader(r1.ss), !.cleared = TRUE,
                             !.stop = "rerun", !.rendered = @ \cup {"pdf", "clear"}]

\* render_pdf_upload; pressed: "Clear / Re-upload PDF" was clicked
RenderPdfUpload(r, pdf, pressed) ==
    IF r.stop # "" THEN r
    ELSE LET gate == pdf # "none" /\ ~r.ss["pdf_extracted"]
             fields == ExtractedFields(pdf)
             r1 == IF gate
                   THEN [r EXCEPT !.ss = SetKey(Populate(r.ss, fields), "pdf_extracted", TRUE),
                                  !.extracted = TRUE,
                                  !.stop = IF Populated(fields) # {} THEN "rerun" ELSE ""]
                   ELSE r
         IN  IF r1.stop # "" THEN [r1 EXCEPT !.rendered = @ \cup {"pdf"}]
             ELSE IF ~r1.ss["pdf_extracted"] THEN [r1 EXCEPT !.rendered = @ \cup {"pdf"}]
             ELSE IF ~pressed THEN [r1 EXCEPT !.rendered = @ \cup {"pdf", "clear"}]
             ELSE [r1 EXCEPT !.ss = ClearHeader(r1.ss), !.cleared = TRUE,
                             !.stop = "rerun", !.rendered = @ \cup {"pdf", "clear"}]

\* what a header widget shows: its own value if its key is in the session
\* state, else the value= argument, which is the backing value
Shown(f, i) ==
    IF FIELD_MAP[i][3] \in DOMAIN f THEN f[FIELD_MAP[i][3]] ELSE f[FIELD_MAP[i][2]]

\* render_header_fields: every backing key gets what its widget shows
RenderHeaderFields(r) ==
    IF r.stop # "" THEN r
    ELSE [r EXCEPT
            !.ss = [x \in DOMAIN r.ss \cup HeaderWidgetKeys |->
                      IF x \in BackingKeys \cup HeaderWidgetKeys
                      THEN Shown(r.ss, CHOOSE i \in 1..Len(FIELD_MAP) :
                                           x \in {FIELD_MAP[i][2], FIELD_MAP[i][3]})
                      ELSE r.ss[x]],
            !.rendered = @ \cup {"header"}]

\* main() from init_session_state to render_header_fields
Script(f, pdf, json, load_pressed, clear_pressed) ==
    RenderHeaderFields(
        RenderPdfUpload(
            RenderSessionUpload(StartRun(f), json, load_pressed),
            pdf, clear_pressed))

\* one script run started by event ev on session state f
RunScript(ev, f, pdf, json, load_pressed, clear_pressed) ==
    LET r == Script(f, pdf, json, load_pressed, clear_pressed)
    IN  /\ ss' = r.ss
        /\ pdf_uploader' = pdf
        /\ session_uploader' = json
        /\ rerun_pending' = (r.stop = "rerun")
        /\ ui_event' = ev
        /\ ss_pre' = f
        /\ extract_called' = r.extracted
        /\ rendered' = r.rendered
        /\ guarded' = IF r.cleared THEN FALSE
                      ELSE IF r.extracted \/ r.loaded THEN TRUE
                      ELSE guarded
        /\ UNCHANGED <<ss0, ls_pc, ls_bytes, ls_data, ls_ret, ls_outcome, exVars, grVars>>

\* the first run of a session
PageLoad ==
    /\ ui_event = "start"
    /\ RunScript("page_load", ss, pdf_uploader, session_uploader, FALSE, FALSE)

\* the user may act: the page is up and no rerun is under way
Idle == ui_event # "start" /\ ~rerun_pending

\* the run st.rerun() starts
AutoRerun ==
    /\ rerun_pending
    /\ RunScript("rerun", ss, pdf_uploader, session_uploader, FALSE, FALSE)

\* the user changes the text of a header widget
EditHeader ==
    /\ Idle /\ "header" \in rendered
    /\ \E wk \in EditableWidgets, v \in EditValues :
          /\ ss[wk] # v
          /\ RunScript("edit", SetKey(ss, wk, v), pdf_uploader, session_uploader,
                       FALSE, FALSE)

UploadPdf ==
    /\ Idle /\ "pdf" \in rendered
    /\ \E f \in PdfFiles :
          /\ f.name # pdf_uploader
          /\ RunScript("upload_pdf", ss, f.name, session_uploader, FALSE, FALSE)

RemovePdf ==
    /\ Idle /\ "pdf" \in rendered
    /\ pdf_uploader # "none"
    /\ RunScript("remove_pdf", ss, "none", session_uploader, FALSE, FALSE)

UploadJson ==
    /\ Idle
    /\ \E f \in JsonFiles :
          /\ f.bytes # session_uploader
          /\ RunScript("upload_json", ss, pdf_uploader, f.bytes, FALSE, FALSE)

RemoveJson ==
    /\ Idle
    /\ session_uploader # "none"
    /\ RunScript("remove_json", ss, pdf_uploader, "none", FALSE, FALSE)

\* the user clicks "Load saved evaluation"
PressLoad ==
    /\ Idle /\ "load" \in rendered
    /\ RunScript("load", ss, pdf_uploader, session_uploader, TRUE, FALSE)

\* the user clicks "Clear / Re-upload PDF"
PressClear ==
    /\ Idle /\ "clear" \in rendered
    /\ RunScript("clear", ss, pdf_uploader, session_uploader, FALSE, TRUE)

(***************************************************************************)
(* Specifications.                                                         *)
(***************************************************************************)
Init == ExInit /\ GrIdle /\ SeIdle /\ UiInit

\* one call of extract_title_page_fields
Spec == Init /\ [][Next]_vars

GradeInit == ExInit /\ GrInit /\ SeIdle /\ UiInit

GradeNext == CallConvert \/ CallWeighted

\* one call of convert_points_to_grade or of compute_weighted_grade
GradeSpec == GradeInit /\ [][GradeNext]_vars

SessionInit == ExInit /\ GrIdle /\ SeInit /\ UiInit

SessionNext == LsParse \/ LsPop \/ LsItems \/ LsFlag

\* one call of load_session
SessionSpec == SessionInit /\ [][SessionNext]_vars

PageNext ==
    \/ PageLoad
    \/ AutoRerun
    \/ EditHeader
    \/ UploadPdf
    \/ RemovePdf
    \/ UploadJson
    \/ RemoveJson
    \/ PressLoad
    \/ PressClear

\* a browser session: script runs of main(), one per user event or
\* st.rerun()
PageSpec == Init /\ [][PageNext]_vars

(***************************************************************************)
(* Properties of extract_title_page_fields, checked under Spec.            *)
(***************************************************************************)
Returned == pc = "done" /\ outcome = "returned"

C1Lines == <<"Master Thesis", "A Study of Something", "Chair of Example",
             "Prof. Jane Doe", "John Smith", "Vallendar, January 5, 2024",
             "Max Mustermann", "12345678">>

\* C1: for the documented eight-line title page the returned record is
\* title "A Study of Something", advisor "Jane Doe", co-advisor
\* "John Smith", location "Vallendar", date "January 5, 2024", name
\* "Max Mustermann", ID "12345678".
C1_SamplePage ==
    (Returned /\ lines = C1Lines) =>
        returned = [thesis_title |-> "A Study of Something",
                    advisor |-> "Jane Doe",
                    co_advisor |-> "John Smith",
                    location |-> "Vallendar",
                    submission_date |-> "January 5, 2024",
                    student_name |-> "Max Mustermann",
                    student_id |-> "12345678"]

C1_Witness == Returned /\ lines = C1Lines /\ returned.student_id = "12345678"

\* C2: the call never lets an exception out: it ends by returning the
\* record, and after a failure (the except clause ran) every field is
\* still the empty string, the same as for "field absent".
C2_NeverRaises ==
    /\ outcome # "raised"
    /\ pc = "done" => (outcome = "returned" /\ returned = result)
    /\ (caught \/ pc = "except") => result = EmptyResult

C2_Witness == Returned /\ caught /\ returned = EmptyResult

\* a string with no leading and no trailing whitespace
Trimmed(str) == str = "" \/ (Ch(str, 1) \notin SpaceSet /\ Ch(str, Len(str)) \notin SpaceSet)

WellFormed(rec) ==
    /\ DOMAIN rec = Fields
    /\ \A f \in Fields : rec[f] \in STRING /\ Trimmed(rec[f])

\* C3: at every point of the call, and in the returned record, all seven
\* fields are present and hold a string that is empty or has no leading
\* or trailing whitespace.
C3_FieldsTrimmed == WellFormed(result) /\ WellFormed(returned)

C3_Witness ==
    /\ Returned
    /\ \E i \in 1..Len(lines) : lines[i] = "Vallendar , January 5, 2024"
    /\ returned.location = "Vallendar"
    /\ returned.submission_date = "January 5, 2024"

FallbackFields == {"student_id", "student_name", "submission_date", "thesis_title"}

\* C4: a field that steps 1-7 filled has the same value in the returned
\* record; the fallback changes only student_id, student_name,
\* submission_date and thesis_title, and only one that was empty.
C4_FallbackKeepsFilled ==
    (pc \in FallbackPcs \cup {"return", "done"} /\ lines # <<>>) =>
        \A f \in Fields :
            LET now == IF pc = "done" THEN returned[f] ELSE result[f]
            IN  /\ structural[f] # "" => now = structural[f]
                /\ now # structural[f] => f \in FallbackFields

\* the fallback found the ID on a page whose name steps 1-7 had already set
C4_Witness ==
    /\ Returned
    /\ structural.student_name = "5, 2024" /\ structural.student_id = ""
    /\ returned.student_id = "12345678"
    /\ returned.student_name = "5, 2024"
    /\ lines[1] = "Max Mustermann"

\* the page has none of: header phrase, Chair/Prof line, date, 6-10-digit ID
NoStructure(text) ==
    LET ls == SegmentLines(text)
    IN  /\ \A i \in 1..Len(ls) :
              /\ ~IsHeaderLine(ls[i])
              /\ ~RE_CHAIR_match(ls[i]) /\ ~RE_PROF_match(ls[i])
              /\ ~IsStandaloneId(ls[i]) /\ ParenIdGroup(ls[i]) = ""
        /\ ~RE_DATE_LONG_search(text)
        /\ ~RE_DATE_SHORT_search(text)

\* C9 as claimed: with an empty page text, or one without extractable
\* structure, every field of the returned record is empty.
C9_Original == (Returned /\ ~caught /\ NoStructure(raw)) => returned = EmptyResult

\* C9, amended: with a page text that has no non-blank line every field of
\* the returned record is empty; with lines but no extractable structure,
\* location, submission_date and student_id are empty and thesis_title is
\* all lines joined with single spaces.
C9_NoStructure ==
    (Returned /\ ~caught /\ NoStructure(raw)) =>
        /\ SegmentLines(raw) = <<>> => returned = EmptyResult
        /\ returned.location = ""
        /\ returned.submission_date = ""
        /\ returned.student_id = ""
        /\ returned.thesis_title = JoinSpace(SegmentLines(raw))

C9_Witness ==
    /\ Returned /\ NoStructure(raw) /\ Len(lines) >= 3
    /\ returned.thesis_title # "" /\ returned.student_id = ""

\* the 1-based positions of the standalone ID tokens that follow a
\* plausible name line
NamedIdLines ==
    {i \in 2..Len(lines) : IsStandaloneId(lines[i]) /\ PlausibleName(lines[i - 1])}

StandaloneIdLines == {i \in 1..Len(lines) : IsStandaloneId(lines[i])}

NoHeaderLine == \A i \in 1..Len(lines) : ~IsHeaderLine(lines[i])

\* the case of C10: no header, an ID token after a plausible name, and
\* neither student_id nor student_name set by steps 1-7
C10_Case ==
    /\ Returned /\ lines # <<>>
    /\ NoHeaderLine
    /\ NamedIdLines # {}
    /\ structural.student_id = "" /\ structural.student_name = ""

\* C10 as claimed: student_id is the first ID token that follows a
\* plausible name line, and student_name is that name line.
C10_Original ==
    C10_Case =>
        /\ returned.student_id = lines[Min(NamedIdLines)]
        /\ returned.student_name = lines[Min(NamedIdLines) - 1]

\* C10, amended: student_id is the first standalone ID token of the page
\* in line order, whatever precedes it; student_name is the line before
\* that token when there is one and it is a plausible name, else empty.
C10_FirstToken ==
    C10_Case =>
        LET i == Min(StandaloneIdLines)
        IN  /\ returned.student_id = lines[i]
            /\ returned.student_name =
                   IF i > 1 /\ PlausibleName(lines[i - 1]) THEN lines[i - 1] ELSE ""

C10_Witness ==
    /\ C10_Case
    /\ Min(StandaloneIdLines) = Min(NamedIdLines)
    /\ returned.student_id = "12345678"
    /\ returned.student_name = "Max Mustermann"

\* steps 1-7 are over: the fallbacks are running or the record was returned
\* after them
AfterStructural == pc \in FallbackPcs \/ (pc \in {"return", "done"} /\ id_idx # Unset)

\* C12: when no line from the title cursor on is a Chair/Prof marker,
\* steps 1-7 leave thesis_title = all lines from the cursor to the end
\* joined with single spaces, and advisor, co_advisor, location,
\* submission_date, student_name and student_id empty.
C12_NoMarker ==
    (AfterStructural /\ Markers(lines, start) = {}) =>
        /\ structural.thesis_title = JoinSpace(SubSeq(lines, start + 1, NLines))
        /\ \A f \in Fields \ {"thesis_title"} : structural[f] = ""

\* no line at or after the marker position matches the Prof prefix
NoProfFrom(i) == \A j \in i..(NLines - 1) : ~RE_PROF_match(LineAt(j))

\* C13: when no line at or after the marker position matches the Prof
\* prefix, the advisor step leaves advisor empty and the cursor at the
\* marker position.
C13_NoProf ==
    (pc = "co_advisor" /\ NoProfFrom(chair_idx)) =>
        /\ result.advisor = ""
        /\ advisor_idx = chair_idx

\* s without a leading Prof prefix and an optional Dr token after it,
\* both read without regard to case
WithoutProfPrefix(s) ==
    LET j == Skip(s, 5, SpaceDotSet)
        k == Skip(s, j + 2, SpaceDotSet)
    IN  IF MatchCI(s, 1, "prof") /\ j > 5
        THEN IF MatchCI(s, j, "dr") /\ k > j + 2
             THEN Strip(SubSeq(s, k, Len(s)))
             ELSE Strip(SubSeq(s, j, Len(s)))
        ELSE Strip(s)

\* C14: when the advisor step selects a line because it matches the Prof
\* prefix (in any case), advisor is that line without the prefix and
\* without an optional Dr token, and does not begin with the prefix.
C14_ProfStripped ==
    (pc = "co_advisor" /\ advisor_idx < NLines /\ RE_PROF_match(LineAt(advisor_idx))) =>
        /\ result.advisor = WithoutProfPrefix(LineAt(advisor_idx))
        /\ ~RE_PROF_match(result.advisor)

\* the line holds a long-form or a short-form date
HasDate(s) == RE_DATE_LONG_search(s) \/ RE_DATE_SHORT_search(s)

\* step 4 has run
AfterCoAdvisor == pc \in {"loc_date", "name", "id"} \/ AfterStructural

\* there is a line right after the advisor line
HasCandidate == advisor_idx + 1 < NLines

\* the line right after the advisor line
Candidate == LineAt(advisor_idx + 1)

\* C15: co_advisor is the line right after the advisor line when that line
\* neither matches the Prof prefix nor holds a date, and empty in every
\* other case; the returned co_advisor never matches the Prof prefix or a
\* date pattern.
C15_CoAdvisor ==
    /\ AfterCoAdvisor =>
           result.co_advisor =
               IF HasCandidate /\ ~RE_PROF_match(Candidate) /\ ~HasDate(Candidate)
               THEN Candidate ELSE ""
    /\ Returned => ~RE_PROF_match(returned.co_advisor) /\ ~HasDate(returned.co_advisor)

C15_Witness ==
    /\ Returned /\ ~caught /\ HasCandidate
    /\ HasDate(Candidate)
    /\ returned.co_advisor = ""
    /\ returned.advisor # ""

\* C16: a date-shaped line right after the advisor line is the line the
\* location/date step reads: its date ends up in submission_date and the
\* name and ID steps read the two lines after it; an accepted co-advisor
\* makes the location/date step read the line after the co-advisor.
C16_DateCandidate ==
    (AfterStructural /\ HasCandidate) =>
        /\ HasDate(Candidate) =>
               /\ loc_date_idx = advisor_idx + 1
               /\ HasDate(structural.submission_date)
               /\ name_idx = advisor_idx + 2
               /\ id_idx = advisor_idx + 3
        /\ (~RE_PROF_match(Candidate) /\ ~HasDate(Candidate)) =>
               /\ structural.co_advisor = Candidate
               /\ loc_date_idx = advisor_idx + 2

C16_Witness ==
    /\ Returned /\ HasCandidate
    /\ HasDate(Candidate)
    /\ loc_date_idx = advisor_idx + 1
    /\ returned.submission_date # ""
    /\ returned.student_name = LineAt(advisor_idx + 2)

\* the indexes of steps 2-7 only move forward, and steps 5-7 each move one
\* line on
CursorChain ==
    /\ start <= chair_idx
    /\ chair_idx <= advisor_idx
    /\ advisor_idx <= co_idx_used
    /\ co_idx_used < loc_date_idx
    /\ loc_date_idx < name_idx
    /\ name_idx < id_idx
    /\ name_idx = loc_date_idx + 1
    /\ id_idx = name_idx + 1

\* C17 as stated: the chain holds, and the date-shaped candidate is the
\* only case in which step 4 does not move past its candidate.
C17_Original ==
    AfterStructural =>
        /\ CursorChain
        /\ (HasCandidate /\ ~HasDate(Candidate)) => loc_date_idx = advisor_idx + 2

\* C17: start <= marker index <= advisor index <= co-advisor index used <
\* location/date index < name index < ID index, with name index =
\* location/date index + 1 and ID index = name index + 1; step 4 moves one
\* line on exactly when it accepts a co-advisor, and stays on the advisor
\* line for a date-shaped candidate, a Prof candidate and a missing one.
C17_CursorForward ==
    AfterStructural =>
        /\ CursorChain
        /\ loc_date_idx = co_idx_used + 1
        /\ co_idx_used =
               IF HasCandidate /\ ~RE_PROF_match(Candidate) /\ ~HasDate(Candidate)
               THEN advisor_idx + 1 ELSE advisor_idx

C17_Witness ==
    /\ Returned /\ HasCandidate
    /\ RE_PROF_match(Candidate) /\ ~HasDate(Candidate)
    /\ loc_date_idx = advisor_idx + 1
    /\ id_idx < NLines

\* the lines (1-based) holding a 6-10-digit run in parentheses
ParenIdLines == {i \in 1..Len(lines) : ParenIdGroup(lines[i]) # ""}

\* the ID the structural ID line gives, "" if there is no such line or it
\* holds no ID
StructuralId ==
    IF id_idx # Unset /\ id_idx < NLines THEN ParseIdLine(LineAt(id_idx)) ELSE ""

\* C18: the returned student_id is empty or 6-10 digits; when no step
\* raised it is empty exactly when no line is a standalone 6-10-digit
\* token and no line holds a 6-10-digit run in parentheses; the structural
\* ID line is tried first, then the first standalone token, then the first
\* run in parentheses.
C18_StudentId ==
    Returned =>
        /\ returned.student_id = "" \/ IsStandaloneId(returned.student_id)
        /\ ~caught =>
               /\ returned.student_id = "" <=>
                      (StandaloneIdLines = {} /\ ParenIdLines = {})
               /\ returned.student_id =
                      IF StructuralId # "" THEN StructuralId
                      ELSE IF StandaloneIdLines # {} THEN lines[Min(StandaloneIdLines)]
                      ELSE IF ParenIdLines # {} THEN ParenIdGroup(lines[Min(ParenIdLines)])
                      ELSE ""

C18_Witness ==
    /\ Returned /\ ~caught
    /\ StructuralId = ""
    /\ StandaloneIdLines = {}
    /\ ParenIdLines # {}
    /\ returned.student_id = ParenIdGroup(lines[Min(ParenIdLines)])

\* C19: student_name is never a line holding a long or short date and
\* never all digits, whether the structural step or the fallback set it;
\* the structural step leaves it empty when it rejects its candidate.
C19_StudentName ==
    /\ (pc = "id" \/ AfterStructural) =>
           LET n == IF pc = "id" THEN result.student_name ELSE structural.student_name
           IN  n = IF name_idx < NLines
                      /\ ~HasDate(LineAt(name_idx)) /\ ~IsDigitStr(LineAt(name_idx))
                   THEN LineAt(name_idx) ELSE ""
    /\ (pc \in {"id", "fb_id", "fb_date", "fb_title", "return"} \/ Returned) =>
           /\ ~HasDate(result.student_name)
           /\ ~IsDigitStr(result.student_name)
    /\ Returned => ~HasDate(returned.student_name) /\ ~IsDigitStr(returned.student_name)

C19_Witness ==
    /\ Returned
    /\ name_idx # Unset /\ name_idx < NLines
    /\ IsDigitStr(LineAt(name_idx))
    /\ structural.student_name = ""

\* some line of the page is the header phrase
HeaderFound == \E i \in 1..Len(lines) : IsHeaderLine(lines[i])

\* C20: when steps 1-7 leave thesis_title empty, a page with at least two
\* lines gets its second line as title if the header phrase was found and
\* its first line if not; with fewer than two lines the title stays empty.
C20_FallbackTitle ==
    (Returned /\ ~caught /\ structural.thesis_title = "") =>
        returned.thesis_title =
            IF Len(lines) >= 2
            THEN IF HeaderFound THEN lines[2] ELSE lines[1]
            ELSE ""

C20_Witness ==
    /\ Returned /\ ~caught
    /\ structural.thesis_title = ""
    /\ Len(lines) >= 2
    /\ ~HeaderFound
    /\ returned.thesis_title = lines[1]
    /\ lines[1] # lines[2]

\* the line is the header phrase or a Chair/Prof marker
IsMarkerLine(s) == IsHeaderLine(s) \/ RE_CHAIR_match(s) \/ RE_PROF_match(s)

\* C25: the returned thesis_title is never equal to a line of the page
\* that matches the header phrase or the Chair-of or Prof prefix, also
\* when it comes from the last-resort fallback.
C25_TitleNotMarker ==
    Returned =>
        \A i \in 1..Len(lines) :
            IsMarkerLine(lines[i]) => returned.thesis_title # lines[i]

(***************************************************************************)
(* Properties of the grade engine, checked under GradeSpec.                *)
(***************************************************************************)
Converted == g_op = "convert" /\ g_pc = "done"
Weighted == g_op = "weighted" /\ g_pc = "done"

\* C5: between 50 and 100 a higher score never gets a numerically worse
\* (higher) grade than a lower one.
C5_Monotone ==
    (Converted /\ 500 <= points /\ points <= 1000) =>
        \A q \in points..1000 : convert_points_to_grade(q) <= grade.grade

C5_Witness == Converted /\ points = 884 /\ grade.grade = 16

\* C6: for every score of at least 50, also above 100, the scan stops at a
\* row whose threshold is at most the score: the grade is one of the
\* table, the return after the loop is not taken, and a score above 100
\* gets the grade of the first row.
C6_TableTotal ==
    (Converted /\ points >= 500) =>
        /\ grade.ret = "table"
        /\ \E k \in 1..Len(GRADE_LOOKUP) :
              GRADE_LOOKUP[k][1] <= points /\ GRADE_LOOKUP[k][2] = grade.grade
        /\ points > 1000 => grade.grade = GRADE_LOOKUP[1][2]

C6_Witness == Converted /\ points > 1000 /\ grade = [grade |-> 10, ret |-> "table"]

\* C7: every score below 50, negative ones included, gets 5.0 and every
\* score from 50 on gets a grade of at most 4.0.
C7_PassingCutoff ==
    Converted =>
        /\ points < 500 => grade.grade = 50
        /\ points >= 500 => grade.grade <= 40

C7_Witness == Converted /\ points < 0 /\ grade.grade = 50

\* t tenths is x hundredths rounded to one decimal, an exact tie to even
IsRoundedTenth(t, x) ==
    LET d == 10 * t - x
    IN  /\ d >= -5 /\ d <= 5
        /\ (d = 5 \/ d = -5) => t % 2 = 0

\* C8: weighted_thesis = round(0.75 A, 1), weighted_defense =
\* round(0.25 B, 1), combined_points is the sum of these two rounded
\* parts, the component grades are those of A and B and the combined
\* grade that of combined_points; (100, 100) gives 75.0/25.0/100.0 with
\* grades 1.0 and (50, 50) gives 37.5/12.5/50.0 with grades 4.0.
C8_WeightedGrade ==
    Weighted =>
        /\ IsRoundedTenth(wres.weighted_thesis, 75 * thesis_points)
        /\ IsRoundedTenth(wres.weighted_defense, 25 * defense_points)
        /\ wres.combined_points = wres.weighted_thesis + wres.weighted_defense
        /\ wres.thesis_grade = convert_points_to_grade(10 * thesis_points)
        /\ wres.defense_grade = convert_points_to_grade(10 * defense_points)
        /\ wres.combined_grade = convert_points_to_grade(wres.combined_points)
        /\ (thesis_points = 100 /\ defense_points = 100) =>
               wres = [weighted_thesis |-> 750, weighted_defense |-> 250,
                       combined_points |-> 1000, thesis_grade |-> 10,
                       defense_grade |-> 10, combined_grade |-> 10]
        /\ (thesis_points = 50 /\ defense_points = 50) =>
               wres = [weighted_thesis |-> 375, weighted_defense |-> 125,
                       combined_points |-> 500, thesis_grade |-> 40,
                       defense_grade |-> 40, combined_grade |-> 40]

C8_Witness ==
    /\ Weighted /\ thesis_points = 50 /\ defense_points = 50
    /\ wres.combined_points = 500 /\ wres.combined_grade = 40

\* the table-only lookup: the grade of the first row of GRADE_LOOKUP whose
\* threshold is at most p, 5.0 if there is none
TableOnly(p) ==
    LET K == {k \in 1..Len(GRADE_LOOKUP) : GRADE_LOOKUP[k][1] <= p}
    IN  IF K = {} THEN 50 ELSE GRADE_LOOKUP[Min(K)][2]

\* C21: for every score, below 50 and negative ones included,
\* convert_points_to_grade gives what the table-only lookup gives: the
\* below-50 short-circuit changes no result.
C21_ShortCircuit == Converted => grade.grade = TableOnly(points)

C21_Witness ==
    /\ Converted /\ points = 499
    /\ grade = [grade |-> 50, ret |-> "below_50"]
    /\ TableOnly(points) = 50

\* x lies between a and b, whichever of the two is the smaller
Between(x, a, b) == (a <= x /\ x <= b) \/ (b <= x /\ x <= a)

\* C24: for whole-point scores A, B in 0..100 the two-step-rounded
\* combined_points lies between A and B (and is A when A = B), the
\* combined grade lies between the thesis grade and the defense grade, and
\* 0 <= weighted_thesis <= 75, 0 <= weighted_defense <= 25.
C24_CombinedBetween ==
    (Weighted /\ thesis_points \in 0..100 /\ defense_points \in 0..100) =>
        /\ Between(wres.combined_points, 10 * thesis_points, 10 * defense_points)
        /\ thesis_points = defense_points => wres.combined_points = 10 * thesis_points
        /\ Between(wres.combined_grade, wres.thesis_grade, wres.defense_grade)
        /\ 0 <= wres.weighted_thesis /\ wres.weighted_thesis <= 750
        /\ 0 <= wres.weighted_defense /\ wres.weighted_defense <= 250

\* both parts are exact ties (0.75 and 0.25), rounded to 0.8 and 0.2
C24_Witness ==
    /\ Weighted /\ thesis_points = 1 /\ defense_points = 1
    /\ wres.weighted_thesis = 8 /\ wres.weighted_defense = 2
    /\ wres.combined_points = 10

(***************************************************************************)
(* Properties of load_session, checked under SessionSpec.                  *)
(***************************************************************************)
\* C11: for every uploaded file load_session returns True or False
\* without raising, and unless it returns True no key of the session
\* state has been removed or changed.
C11_LoadSession ==
    /\ ls_outcome # "raised"
    /\ ls_pc = "done" => ls_ret \in {"True", "False"}
    /\ (ls_pc = "done" /\ ls_ret # "True") => ss = ss0

(***************************************************************************)
(* Properties of the page script, checked under PageSpec.                  *)
(***************************************************************************)
\* the header shows the same six values in f and in g
SameHeader(f, g) == \A i \in 1..Len(FIELD_MAP) : Shown(f, i) = Shown(g, i)

\* C22: a script run calls extract_title_page_fields only if a PDF is in
\* the uploader and pdf_extracted was False, and that run sets
\* pdf_extracted to True; from an extraction or a successful load_session
\* to the next press of Clear pdf_extracted stays True, no run extracts,
\* and a run that is not a load leaves the header showing what the user
\* had in it when the run started.
C22_ExtractionGated ==
    /\ [](extract_called =>
            /\ pdf_uploader # "none"
            /\ ~ss_pre["pdf_extracted"]
            /\ ss["pdf_extracted"])
    /\ [](guarded => ss["pdf_extracted"])
    /\ [][(guarded /\ ui_event' # "clear") =>
            /\ ~extract_called'
            /\ ui_event' # "load" => SameHeader(ss', ss_pre')]_vars

\* the user typed a name after the extraction, with the PDF still in the
\* uploader, and the run kept it
C22_Witness ==
    /\ guarded /\ ui_event = "edit" /\ ~extract_called
    /\ pdf_uploader = "thesis.pdf"
    /\ "header" \in rendered
    /\ ss["student_name"] = "Eva" /\ ss["hdr_name"] = "Eva"
    /\ ss["student_id"] = "12345678"

\* the header would show six blank fields
BlankHeader(f) == \A i \in 1..Len(FIELD_MAP) : Shown(f, i) = ""

\* C23: the run in which Clear is pressed sets the six backing values to
\* "", deletes their widget keys and sets pdf_extracted to False, and the
\* run that st.rerun() then starts leaves the header blank, also when the
\* PDF is still in the uploader.
C23_ClearBlanks ==
    /\ ui_event = "clear" =>
           /\ \A k \in BackingKeys : ss[k] = ""
           /\ DOMAIN ss \cap HeaderWidgetKeys = {}
           /\ ~ss["pdf_extracted"]
    /\ (ui_event = "rerun" /\ ~ss_pre["pdf_extracted"]) => BlankHeader(ss)

====
